---- MODULE Spec2Model ----
(***************************************************************************)
(* Model of compare.py: the KiCad netlist parser (parse_netlist), the      *)
(* comparator (compare_netlists) and the reporter (generate_html_report).  *)
(*                                                                         *)
(* Text is modelled as a sequence of chunks (tokens).  A net name, a net   *)
(* code, a reference designator, a pin and each literal piece of markup is *)
(* one chunk; a formatted node string is the sequence of the five chunks   *)
(* the f-string of line 43 concatenates.  A placeholder of the template is *)
(* one chunk, and so is a net name or a ref that spells a placeholder.     *)
(* Python string equality is equality of chunk sequences.                  *)
(*                                                                         *)
(* A line of a netlist file is a record: its leading whitespace, the       *)
(* prefix and pattern it matches (kind), the two quoted fields the regular *)
(* expressions capture (a, b) and the text after the match (tail).         *)
(***************************************************************************)
EXTENDS Integers, Sequences, FiniteSets, TLC

VARIABLES
    pc,                   \* position in the program
    \* parse_netlist
    lines, idx,           \* file.readlines() and the position of the for loop
    in_nets_section, net_name, net_code,
    connections, net_codes,
    \* compare_netlists
    file1, file2,         \* contents of the two paths (NoFile: path missing)
    netlist1, net_codes1, netlist2, net_codes2,
    all_nets, todo,       \* the set being iterated and what is left of it
    unique_nodes1, unique_nodes2,
    results, detailed_mismatches, matched_count, mismatched_count,
    \* generate_html_report
    html_content

parser_vars == <<lines, idx, in_nets_section, net_name, net_code,
                 connections, net_codes>>
compare_vars == <<file1, file2, netlist1, net_codes1, netlist2, net_codes2,
                  all_nets, todo, unique_nodes1, unique_nodes2,
                  results, detailed_mismatches, matched_count,
                  mismatched_count>>
vars == <<pc, parser_vars, compare_vars, html_content>>

-----------------------------------------------------------------------------
(* Bounds *)

MaxLines == 4        \* lines of a file in the line-by-line parser runs
MaxNodes == 3        \* nodes of a net in the comparator runs

-----------------------------------------------------------------------------
(* Python values *)

\* None is <<>>, a str s is <<s>>: net_name and net_code start as None.
None == <<>>
Some(s) == <<s>>

\* An empty dict, d[k] = v, and d.get(k, default).
EmptyDict == [k \in {} |-> k]
DictSet(d, k, v) == [x \in (DOMAIN d) \cup {k} |-> IF x = k THEN v ELSE d[x]]
DictGet(d, k, default) == IF k \in DOMAIN d THEN d[k] ELSE default

\* What a path holds: a missing path, or a file and its lines.
NoFile == [exists |-> FALSE, lines |-> <<>>]
File(ls) == [exists |-> TRUE, lines |-> ls]

-----------------------------------------------------------------------------
(* parse_netlist *)

Line(indent, kind, a, b, tail) ==
    [indent |-> indent, kind |-> kind, a |-> a, b |-> b, tail |-> tail]

\* line.strip()
Strip(line) == [line EXCEPT !.indent = ""]

\* line.startswith(prefix): the text starts with its own prefix only when no
\* whitespace precedes it.  '(net' is also a prefix of '(nets...'.
StartsWith(line, prefix) ==
    /\ line.indent = ""
    /\ \/ (prefix = "(nets" /\ line.kind = "nets")
       \/ (prefix = "(components" /\ line.kind = "components")
       \/ (prefix = "(net" /\ line.kind \in {"nets", "net", "netbad"})
       \/ (prefix = "(node" /\ line.kind \in {"node", "nodebad"})

\* re.match(r'\(net \(code "(\d+)"\) \(name "(.*?)"\)', line)
NetMatch(line) ==
    IF line.indent = "" /\ line.kind = "net" THEN Some(<<line.a, line.b>>) ELSE None

\* re.match(r'\(node \(ref "(.*?)"\) \(pin "(.*?)"\)', line)
NodeMatch(line) ==
    IF line.indent = "" /\ line.kind = "node" THEN Some(<<line.a, line.b>>) ELSE None

\* f'(node (ref "{ref}") (pin "{pin}"))'
FormatNode(ref, pin) == <<"(node (ref \"", ref, "\") (pin \"", pin, "\"))">>

\* `if net_name:` is false for None and for the empty string.
Truthy(name) == name # None /\ name # Some("")

ParserState(ins, nn, nc, conn, codes) ==
    [in_nets_section |-> ins, net_name |-> nn, net_code |-> nc,
     connections |-> conn, net_codes |-> codes]

ParserInit == ParserState(FALSE, None, None, EmptyDict, EmptyDict)

\* connections[net_name]['nodes'].append(node)
AppendNode(conn, name, node) ==
    [conn EXCEPT ![name].nodes = Append(@, node)]

\* One iteration of the for loop over the lines.
ParseLine(st, rawline) ==
    LET line == Strip(rawline) IN
    IF StartsWith(line, "(nets") THEN
        [st EXCEPT !.in_nets_section = TRUE]
    ELSE IF StartsWith(line, "(components") THEN
        [st EXCEPT !.in_nets_section = FALSE]
    ELSE IF st.in_nets_section /\ StartsWith(line, "(net")
                               /\ NetMatch(line) # None THEN
        LET m == NetMatch(line)[1] IN
        ParserState(st.in_nets_section, Some(m[2]), Some(m[1]),
                    DictSet(st.connections, m[2], [code |-> m[1], nodes |-> <<>>]),
                    DictSet(st.net_codes, m[2], m[1]))
    ELSE IF st.in_nets_section /\ StartsWith(line, "(node")
                               /\ Truthy(st.net_name)
                               /\ NodeMatch(line) # None THEN
        LET m == NodeMatch(line)[1] IN
        [st EXCEPT !.connections =
            AppendNode(st.connections, st.net_name[1], FormatNode(m[1], m[2]))]
    ELSE st

RECURSIVE ParseLines(_, _)
ParseLines(st, ls) ==
    IF ls = <<>> THEN st ELSE ParseLines(ParseLine(st, Head(ls)), Tail(ls))

\* The whole call: FileNotFoundError leaves both dicts empty.
parse_netlist(file) ==
    IF ~file.exists THEN <<EmptyDict, EmptyDict>>
    ELSE LET st == ParseLines(ParserInit, file.lines)
         IN <<st.connections, st.net_codes>>

-----------------------------------------------------------------------------
(* parse_netlist, line by line *)

\* The lines the files of the parser runs are made of.
ParseLinesAlphabet ==
    { Line("  ", "components", "", "", ""),
      Line("  ", "nets", "", "", ""),
      Line("    ", "net", "1", "GND", ""),
      Line("    ", "net", "2", "GND", ""),
      Line("    ", "net", "3", "+5V", " (class \"Default\")"),
      Line("    ", "net", "4", "", ""),
      Line("      ", "node", "C1", "1", " (pintype \"passive\"))"),
      Line("      ", "node", "R1", "2", ")"),
      Line("    ", "netbad", "", "", "(net (code 5) (name \"X\")"),
      Line("      ", "nodebad", "", "", "(node (ref U3))") }

SeqsUpTo(S, n) == UNION { [1..k -> S] : k \in 0..n }

CurrentParserState ==
    ParserState(in_nets_section, net_name, net_code, connections, net_codes)

SetParserState(st) ==
    /\ in_nets_section' = st.in_nets_section
    /\ net_name' = st.net_name
    /\ net_code' = st.net_code
    /\ connections' = st.connections
    /\ net_codes' = st.net_codes

\* open() succeeds and readlines() returns the lines of the file.
OpenFile ==
    /\ pc = "open"
    /\ \E ls \in SeqsUpTo(ParseLinesAlphabet, MaxLines) : lines' = ls
    /\ idx' = 0
    /\ SetParserState(ParserInit)
    /\ pc' = "lines"
    /\ UNCHANGED <<compare_vars, html_content>>

\* open() raises FileNotFoundError: the handler prints and falls through.
FileNotFound ==
    /\ pc = "open"
    /\ pc' = "returned"
    /\ UNCHANGED <<parser_vars, compare_vars, html_content>>

\* One iteration of `for line in lines`.
ReadLine ==
    /\ pc = "lines"
    /\ idx < Len(lines)
    /\ idx' = idx + 1
    /\ SetParserState(ParseLine(CurrentParserState, lines[idx + 1]))
    /\ UNCHANGED <<pc, lines, compare_vars, html_content>>

\* The loop is exhausted: return connections, net_codes.
ParseReturn ==
    /\ pc = "lines"
    /\ idx = Len(lines)
    /\ pc' = "returned"
    /\ UNCHANGED <<parser_vars, compare_vars, html_content>>

-----------------------------------------------------------------------------
(* compare_netlists *)

\* The code points of the chunks whose characters the program looks at:
\* net codes (compared by the sort) and refs (categorize_nodes).
Chars(s) ==
    CASE s = "1"   -> <<49>>
      [] s = "2"   -> <<50>>
      [] s = "10"  -> <<49, 48>>
      [] s = "N/A" -> <<78, 47, 65>>
      [] s = "C1"  -> <<67, 49>>
      [] s = "C2"  -> <<67, 50>>
      [] s = "R1"  -> <<82, 49>>
      [] s = "U3"  -> <<85, 51>>
      [] OTHER     -> <<>>

\* Python's < on two strings, given as their code points.
RECURSIVE SeqLess(_, _)
SeqLess(a, b) ==
    IF b = <<>> THEN FALSE
    ELSE IF a = <<>> THEN TRUE
    ELSE IF Head(a) # Head(b) THEN Head(a) < Head(b)
    ELSE SeqLess(Tail(a), Tail(b))

StrLess(s, t) == SeqLess(Chars(s), Chars(t))

\* Rows of results and entries of detailed_mismatches.
Row(name, code1, count1, code2, count2, is_mismatch) ==
    [net_name |-> name, net_code1 |-> code1, count1 |-> count1,
     net_code2 |-> code2, count2 |-> count2, is_mismatch |-> is_mismatch]

Detail(name, u1, c1, u2, c2) ==
    [net_name |-> name, unique_nodes1 |-> u1, count1 |-> c1,
     unique_nodes2 |-> u2, count2 |-> c2]

\* node in nodes
In(node, nodes) == \E i \in 1..Len(nodes) : nodes[i] = node

\* A multiset difference: each entry of nodes_b cancels one copy only.
UniqueNodesMultiset(nodes_a, nodes_b) ==
    LET Copies(i) == Cardinality({ j \in 1..i : nodes_a[j] = nodes_a[i] })
        InB(i) == Cardinality({ j \in 1..Len(nodes_b) : nodes_b[j] = nodes_a[i] })
        F[i \in 0..Len(nodes_a)] ==
            IF i = 0 THEN <<>>
            ELSE IF Copies(i) > InB(i) THEN Append(F[i - 1], nodes_a[i])
            ELSE F[i - 1]
    IN F[Len(nodes_a)]

\* A set difference: a repeated unique node is kept once.
UniqueNodesDeduplicated(nodes_a, nodes_b) ==
    LET F[i \in 0..Len(nodes_a)] ==
            IF i = 0 THEN <<>>
            ELSE IF In(nodes_a[i], nodes_b) \/ In(nodes_a[i], F[i - 1])
                 THEN F[i - 1]
                 ELSE Append(F[i - 1], nodes_a[i])
    IN F[Len(nodes_a)]

\* [node for node in nodes_a if node not in nodes_b]
UniqueNodes(nodes_a, nodes_b) ==
    LET Keep(node) == ~In(node, nodes_b) IN SelectSeq(nodes_a, Keep)

\* The flag by content of the unique lists instead of their lengths.
IsMismatchByContent(u1, u2) == u1 # u2

\* The flag with > for !=.
IsMismatchGreater(u1, u2) == Len(u1) > Len(u2)

\* is_mismatch = count_unique1 != count_unique2
IsMismatch(u1, u2) == Len(u1) # Len(u2)

\* get() with an empty default.
CodeOfEmptyDefault(codes, name) == DictGet(codes, name, "")

\* net_codes.get(net_name, 'N/A')
CodeOf(codes, name) == DictGet(codes, name, "N/A")

\* netlist.get(net_name, {'nodes': []})['nodes']
NodesOf(netlist, name) == DictGet(netlist, name, [nodes |-> <<>>]).nodes

\* The key of the sort, lambda x: (not x[5], x[1]), and < on two keys.
SortKey(row) == <<~row.is_mismatch, row.net_code1>>

\* The key without its second component.
KeyLessFlagOnly(k1, k2) == ~k1[1] /\ k2[1]

KeyLess(k1, k2) ==
    \/ (~k1[1] /\ k2[1])
    \/ (k1[1] = k2[1] /\ StrLess(k1[2], k2[2]))

\* list.sort(key=...) is stable: a row goes behind the rows that do not
\* compare greater than it.
RECURSIVE InsertRow(_, _)
InsertRow(sorted, row) ==
    IF sorted = <<>> THEN <<row>>
    ELSE IF KeyLess(SortKey(row), SortKey(Head(sorted)))
         THEN <<row>> \o sorted
         ELSE <<Head(sorted)>> \o InsertRow(Tail(sorted), row)

RECURSIVE SortRows(_)
SortRows(rows) ==
    IF rows = <<>> THEN <<>>
    ELSE InsertRow(SortRows(SubSeq(rows, 1, Len(rows) - 1)), rows[Len(rows)])

\* netlist1, net_codes1 = parse_netlist(file1)
ParseFile1 ==
    /\ pc = "start"
    /\ netlist1' = parse_netlist(file1)[1]
    /\ net_codes1' = parse_netlist(file1)[2]
    /\ pc' = "parse2"
    /\ UNCHANGED <<parser_vars, file1, file2, netlist2, net_codes2, all_nets,
                   todo, unique_nodes1, unique_nodes2, results,
                   detailed_mismatches, matched_count, mismatched_count,
                   html_content>>

\* netlist2, net_codes2 = parse_netlist(file2)
ParseFile2 ==
    /\ pc = "parse2"
    /\ netlist2' = parse_netlist(file2)[1]
    /\ net_codes2' = parse_netlist(file2)[2]
    /\ pc' = "union"
    /\ UNCHANGED <<parser_vars, file1, file2, netlist1, net_codes1, all_nets,
                   todo, unique_nodes1, unique_nodes2, results,
                   detailed_mismatches, matched_count, mismatched_count,
                   html_content>>

\* all_nets = set(...).union(...) and the four accumulators.
UnionNets ==
    /\ pc = "union"
    /\ all_nets' = (DOMAIN netlist1) \cup (DOMAIN netlist2)
    /\ todo' = all_nets'
    /\ results' = <<>>
    /\ detailed_mismatches' = <<>>
    /\ matched_count' = 0
    /\ mismatched_count' = 0
    /\ pc' = "loop"
    /\ UNCHANGED <<parser_vars, file1, file2, netlist1, net_codes1, netlist2,
                   net_codes2, unique_nodes1, unique_nodes2, html_content>>

\* The loop body with matched_count incremented outside the else branch.
CompareNetCountsAll(name) ==
    LET nodes1 == NodesOf(netlist1, name)
        nodes2 == NodesOf(netlist2, name)
        u1 == UniqueNodes(nodes1, nodes2)
        u2 == UniqueNodes(nodes2, nodes1)
        is_mismatch == IsMismatch(u1, u2)
    IN  /\ unique_nodes1' = u1
        /\ unique_nodes2' = u2
        /\ results' = Append(results,
               Row(name, CodeOf(net_codes1, name), Len(nodes1),
                   CodeOf(net_codes2, name), Len(nodes2), is_mismatch))
        /\ matched_count' = matched_count + 1
        /\ IF is_mismatch
           THEN /\ detailed_mismatches' = Append(detailed_mismatches,
                       Detail(name, u1, Len(u1), u2, Len(u2)))
                /\ mismatched_count' = mismatched_count + 1
           ELSE UNCHANGED <<detailed_mismatches, mismatched_count>>

\* The body of `for net_name in all_nets` for one net name.
CompareNet(name) ==
    LET net_code1 == CodeOf(net_codes1, name)
        net_code2 == CodeOf(net_codes2, name)
        nodes1 == NodesOf(netlist1, name)
        nodes2 == NodesOf(netlist2, name)
        u1 == UniqueNodes(nodes1, nodes2)
        u2 == UniqueNodes(nodes2, nodes1)
        is_mismatch == IsMismatch(u1, u2)
    IN  /\ unique_nodes1' = u1
        /\ unique_nodes2' = u2
        /\ results' = Append(results,
               Row(name, net_code1, Len(nodes1), net_code2, Len(nodes2),
                   is_mismatch))
        /\ IF is_mismatch
           THEN /\ detailed_mismatches' = Append(detailed_mismatches,
                       Detail(name, u1, Len(u1), u2, Len(u2)))
                /\ mismatched_count' = mismatched_count + 1
                /\ UNCHANGED matched_count
           ELSE /\ matched_count' = matched_count + 1
                /\ UNCHANGED <<detailed_mismatches, mismatched_count>>

\* One iteration of the loop; a set is iterated in an unspecified order.
LoopIter ==
    /\ pc = "loop"
    /\ \E name \in todo :
          /\ CompareNet(name)
          /\ todo' = todo \ {name}
    /\ UNCHANGED <<pc, parser_vars, file1, file2, netlist1, net_codes1,
                   netlist2, net_codes2, all_nets, html_content>>

\* results.sort(key=lambda x: (not x[5], x[1]))
SortResults ==
    /\ pc = "loop"
    /\ todo = {}
    /\ results' = SortRows(results)
    /\ pc' = "report"
    /\ UNCHANGED <<parser_vars, file1, file2, netlist1, net_codes1, netlist2,
                   net_codes2, all_nets, todo, unique_nodes1, unique_nodes2,
                   detailed_mismatches, matched_count, mismatched_count,
                   html_content>>

-----------------------------------------------------------------------------
(* generate_html_report *)

\* template.html: the three placeholders, each once, between markup.
Template ==
    <<"<table id=\"summary\">", "{{ rows }}", "</table><table id=\"details\">",
      "{{ detailed_rows }}", "</table><table id=\"footer\">",
      "{{ footer_info }}", "</table>">>

\* str.replace(old, new): every occurrence of old, left to right.
RECURSIVE Replace(_, _, _)
Replace(text, old, new) ==
    IF text = <<>> THEN <<>>
    ELSE (IF Head(text) = old THEN new ELSE <<Head(text)>>)
         \o Replace(Tail(text), old, new)

\* ref.startswith(c)
RefStartsWith(ref, c) == Chars(ref) # <<>> /\ Head(Chars(ref)) = c

\* categorize_nodes: the ref is the chunk between '(ref "' and '")'.
RECURSIVE categorize_nodes(_)
categorize_nodes(nodes) ==
    IF nodes = <<>> THEN [Capacitors |-> 0, Resistors |-> 0, Others |-> 0]
    ELSE LET rest == categorize_nodes(SubSeq(nodes, 1, Len(nodes) - 1))
             ref == nodes[Len(nodes)][2]
         IN IF RefStartsWith(ref, 67)
            THEN [rest EXCEPT !.Capacitors = @ + 1]
            ELSE IF RefStartsWith(ref, 82)
                 THEN [rest EXCEPT !.Resistors = @ + 1]
                 ELSE [rest EXCEPT !.Others = @ + 1]

\* One <tr> of the summary table.
SummaryRow(i, row) ==
    <<"<tr class=\"", IF row.is_mismatch THEN "mismatch-row" ELSE "match-row",
      "\"><td>", ToString(i), "</td><td>", row.net_name, "</td><td>",
      row.net_code1, "</td><td>", ToString(row.count1), "</td><td>",
      row.net_code2, "</td><td>", ToString(row.count2), "</td></tr>">>

RECURSIVE SummaryRows(_, _)
SummaryRows(rows, i) ==
    IF i > Len(rows) THEN <<>>
    ELSE SummaryRow(i, rows[i]) \o SummaryRows(rows, i + 1)

\* "".join(f"<li>{node}</li>" for node in nodes)
RECURSIVE NodeItems(_)
NodeItems(nodes) ==
    IF nodes = <<>> THEN <<>>
    ELSE <<"<li>">> \o Head(nodes) \o <<"</li>">> \o NodeItems(Tail(nodes))

\* One <td> of the detail table.
DetailCell(count, nodes) ==
    LET c == categorize_nodes(nodes) IN
    <<"<td><p>Total Nodes: ", ToString(count),
      "</p><p>Total Capacitors: ", ToString(c.Capacitors),
      "</p><p>Total Resistors: ", ToString(c.Resistors),
      "</p><p>Total Others: ", ToString(c.Others), "</p><ul>">>
    \o NodeItems(nodes) \o <<"</ul></td>">>

DetailRow(i, d) ==
    <<"<tr><td>", ToString(i), "</td><td>", d.net_name, "</td>">>
    \o DetailCell(d.count1, d.unique_nodes1)
    \o DetailCell(d.count2, d.unique_nodes2) \o <<"</tr>">>

RECURSIVE DetailRows(_, _)
DetailRows(ds, i) ==
    IF i > Len(ds) THEN <<>>
    ELSE DetailRow(i, ds[i]) \o DetailRows(ds, i + 1)

FooterInfo(matched, mismatched) ==
    <<"<tr><td colspan=\"6\"><p><strong>Matched Net Codes: ", ToString(matched),
      "</strong></p><p><strong>Mismatched Net Codes: ", ToString(mismatched),
      "</strong></p></td></tr>">>

\* template.replace(...).replace(...).replace(...)
RenderReport(template, rows, detailed_rows, footer_info) ==
    Replace(Replace(Replace(template, "{{ rows }}", rows),
                    "{{ detailed_rows }}", detailed_rows),
            "{{ footer_info }}", footer_info)

GenerateReport ==
    /\ pc = "report"
    /\ html_content' =
           RenderReport(Template, SummaryRows(results, 1),
                        DetailRows(detailed_mismatches, 1),
                        FooterInfo(matched_count, mismatched_count))
    /\ pc' = "done"
    /\ UNCHANGED <<parser_vars, compare_vars>>

-----------------------------------------------------------------------------
(* Inputs of the comparator runs *)

NetNames == {"GND", "+5V", "{{ footer_info }}"}
NameOrder == <<"GND", "+5V", "{{ footer_info }}">>
Codes == {"2", "10"}
Pins == <<<<"C1", "1">>, <<"R1", "2">>, <<"C2", "1">>>>

\* A net as a file declares it: code and the (ref, pin) of its node lines.
Decl(code, nodes) == [code |-> code, nodes |-> nodes]

\* The lines of one net: its declaration and one line per node.
NetLines(name, decl) ==
    <<Line("    ", "net", decl.code, name, "")>>
    \o [i \in 1..Len(decl.nodes) |->
           Line("      ", "node", decl.nodes[i][1], decl.nodes[i][2],
                " (pintype \"passive\"))")]

RECURSIVE NetsLines(_, _)
NetsLines(decls, i) ==
    IF i > Len(NameOrder) THEN <<>>
    ELSE (IF NameOrder[i] \in DOMAIN decls
          THEN NetLines(NameOrder[i], decls[NameOrder[i]]) ELSE <<>>)
         \o NetsLines(decls, i + 1)

\* A well-formed netlist file: the components section, then the nets.
FileOf(decls) ==
    File(<<Line("  ", "components", "", "", ""),
           Line("    ", "other", "", "", "(comp (ref \"U3\")"),
           Line("  ", "nets", "", "", "")>> \o NetsLines(decls, 1))

DictsOver(names, values) == UNION { [D -> values] : D \in SUBSET names }

\* One net with up to MaxNodes nodes.
DeepFiles ==
    {NoFile} \cup
    { FileOf(d) : d \in DictsOver({"GND"},
          { Decl(c, ns) : c \in Codes,
                          ns \in SeqsUpTo({Pins[i] : i \in 1..Len(Pins)}, MaxNodes) }) }

\* Up to three nets with at most one node each.
WideFiles ==
    {NoFile} \cup
    { FileOf(d) : d \in DictsOver(NetNames,
          { Decl(c, ns) : c \in Codes, ns \in {<<>>, <<Pins[1]>>} }) }

Inputs == (DeepFiles \X DeepFiles) \cup (WideFiles \X WideFiles)

-----------------------------------------------------------------------------
(* Specifications *)

ParserIdle ==
    /\ lines = <<>>
    /\ idx = 0
    /\ in_nets_section = FALSE
    /\ net_name = None
    /\ net_code = None
    /\ connections = EmptyDict
    /\ net_codes = EmptyDict

CompareIdle ==
    /\ netlist1 = EmptyDict
    /\ net_codes1 = EmptyDict
    /\ netlist2 = EmptyDict
    /\ net_codes2 = EmptyDict
    /\ all_nets = {}
    /\ todo = {}
    /\ unique_nodes1 = <<>>
    /\ unique_nodes2 = <<>>
    /\ results = <<>>
    /\ detailed_mismatches = <<>>
    /\ matched_count = 0
    /\ mismatched_count = 0
    /\ html_content = <<>>

\* compare_netlists(file1, file2) on two paths.
Init ==
    /\ pc = "start"
    /\ \E in \in Inputs : file1 = in[1] /\ file2 = in[2]
    /\ ParserIdle
    /\ CompareIdle

Next ==
    \/ ParseFile1
    \/ ParseFile2
    \/ UnionNets
    \/ LoopIter
    \/ SortResults
    \/ GenerateReport

Spec == Init /\ [][Next]_vars

\* parse_netlist(file_path) on one path, line by line.
InitParse ==
    /\ pc = "open"
    /\ file1 = NoFile
    /\ file2 = NoFile
    /\ ParserIdle
    /\ CompareIdle

NextParse ==
    \/ OpenFile
    \/ FileNotFound
    \/ ReadLine
    \/ ParseReturn

SpecParse == InitParse /\ [][NextParse]_vars

-----------------------------------------------------------------------------
(* Properties of the comparator *)

\* The row of a net name in results, and what each file holds for it.
RowsOf(name) == { i \in 1..Len(results) : results[i].net_name = name }
DetailsOf(name) ==
    { i \in 1..Len(detailed_mismatches) : detailed_mismatches[i].net_name = name }
Range(seq) == { seq[i] : i \in 1..Len(seq) }
Nodes1(name) == IF name \in DOMAIN netlist1 THEN netlist1[name].nodes ELSE <<>>
Nodes2(name) == IF name \in DOMAIN netlist2 THEN netlist2[name].nodes ELSE <<>>
LastRow == results[Len(results)]

\* The loop has just processed the net name `name`.
Processed(name) == pc = "loop" /\ name \in todo /\ todo' = todo \ {name}

\* C1: a net present in both netlists whose two node lists hold the same set
\* of node strings gets a row with is_mismatch = false, adds nothing to
\* detailed_mismatches and increments matched_count, not mismatched_count.
C1_SameNodeSetMatches ==
    [][\A name \in NetNames :
          ( /\ Processed(name)
            /\ name \in DOMAIN netlist1
            /\ name \in DOMAIN netlist2
            /\ Range(netlist1[name].nodes) = Range(netlist2[name].nodes) )
          => /\ results' = Append(results, LastRow')
             /\ LastRow'.net_name = name
             /\ LastRow'.is_mismatch = FALSE
             /\ detailed_mismatches' = detailed_mismatches
             /\ matched_count' = matched_count + 1
             /\ mismatched_count' = mismatched_count]_vars

\* A matched net whose two lists hold the same nodes with different
\* repetition.
C1_Witness ==
    /\ pc = "loop"
    /\ \E i \in 1..Len(results) :
          LET name == results[i].net_name IN
          /\ name \in DOMAIN netlist1 /\ name \in DOMAIN netlist2
          /\ Range(Nodes1(name)) = Range(Nodes2(name))
          /\ Len(Nodes1(name)) = 3 /\ Len(Nodes2(name)) = 2
          /\ ~results[i].is_mismatch
          /\ matched_count = 1 /\ detailed_mismatches = <<>>

\* C2: a net present in exactly one netlist with N nodes has N unique nodes on
\* that side and none on the other; when N > 0 it is flagged and gets one
\* detailed_mismatches entry; the absent side shows code "N/A" and count 0.
C2_OneSidedNet ==
    [][\A name \in NetNames :
          (Processed(name) /\ ((name \in DOMAIN netlist1) # (name \in DOMAIN netlist2)))
          => LET in1 == name \in DOMAIN netlist1
                 N == IF in1 THEN Len(netlist1[name].nodes)
                             ELSE Len(netlist2[name].nodes)
                 here == IF in1 THEN unique_nodes1' ELSE unique_nodes2'
                 there == IF in1 THEN unique_nodes2' ELSE unique_nodes1'
                 row == LastRow'
             IN /\ Len(here) = N
                /\ Len(there) = 0
                /\ row.net_name = name
                /\ IF in1 THEN row.net_code2 = "N/A" /\ row.count2 = 0
                          ELSE row.net_code1 = "N/A" /\ row.count1 = 0
                /\ N > 0 =>
                     /\ row.is_mismatch
                     /\ Len(detailed_mismatches') = Len(detailed_mismatches) + 1
                     /\ detailed_mismatches'[Len(detailed_mismatches')].net_name = name
          ]_vars

\* A net of file1 only, with a repeated node, has been processed.
C2_Witness ==
    /\ pc = "loop"
    /\ results # <<>>
    /\ LastRow.net_name \in (DOMAIN netlist1) \ (DOMAIN netlist2)
    /\ Len(Nodes1(LastRow.net_name)) = 3
    /\ Cardinality(Range(Nodes1(LastRow.net_name))) = 2
    /\ Len(unique_nodes1) = 3 /\ unique_nodes2 = <<>>
    /\ LastRow.is_mismatch /\ LastRow.net_code2 = "N/A" /\ LastRow.count2 = 0
    /\ Len(detailed_mismatches) = 1

\* The number of entries of nodes_a whose string is nowhere in nodes_b.
CountNotIn(nodes_a, nodes_b) ==
    Cardinality({ i \in 1..Len(nodes_a) :
                    \A j \in 1..Len(nodes_b) : nodes_b[j] # nodes_a[i] })

\* C3: a row is flagged exactly when the numbers of unique nodes of the two
\* sides differ; disjoint node lists with equal unique counts are matched and
\* have no detailed_mismatches entry.
C3_MismatchIffCountsDiffer ==
    \A i \in 1..Len(results) :
        LET name == results[i].net_name IN
        /\ results[i].is_mismatch <=>
              (CountNotIn(Nodes1(name), Nodes2(name))
                 # CountNotIn(Nodes2(name), Nodes1(name)))
        /\ ~results[i].is_mismatch => DetailsOf(name) = {}

\* Two nodes in file1, two entirely different nodes in file2: matched.
C3_Witness ==
    /\ pc = "done"
    /\ \E i \in 1..Len(results) :
          LET name == results[i].net_name IN
          /\ Len(Nodes1(name)) = 2 /\ Len(Nodes2(name)) = 2
          /\ Range(Nodes1(name)) \cap Range(Nodes2(name)) = {}
          /\ ~results[i].is_mismatch
          /\ detailed_mismatches = <<>>

\* C4: in the results handed to generate_html_report every flagged row
\* precedes every unflagged row, and inside each group the rows are in
\* non-decreasing string order of the first file's net code.
C4_ResultsSorted ==
    pc \in {"report", "done"} =>
        \A i, j \in 1..Len(results) :
            i < j =>
               /\ results[j].is_mismatch => results[i].is_mismatch
               /\ results[i].is_mismatch = results[j].is_mismatch
                    => ~StrLess(results[j].net_code1, results[i].net_code1)

\* Three rows, both groups present, the matched group holding "10" before
\* "2", and the flagged row carrying "N/A".
C4_Witness ==
    /\ pc = "report"
    /\ Len(results) = 3
    /\ results[1].is_mismatch /\ results[1].net_code1 = "N/A"
    /\ ~results[2].is_mismatch /\ results[2].net_code1 = "10"
    /\ ~results[3].is_mismatch /\ results[3].net_code1 = "2"

\* C5: with the first path missing and the second a netlist, parse_netlist
\* returns two empty mappings, the run reaches the report, and every net of
\* the second file has a row with net_code1 = "N/A" and count1 = 0 that is
\* flagged whenever the net has nodes in the second file.
C5_MissingFirstFile ==
    (~file1.exists /\ file2.exists) =>
        /\ pc # "start" => netlist1 = EmptyDict /\ net_codes1 = EmptyDict
        /\ pc = "done" => html_content # <<>>
        /\ pc \in {"report", "done"} =>
             \A k \in 1..Len(file2.lines) :
                file2.lines[k].kind = "net" =>
                   \E i \in 1..Len(results) :
                      /\ RowsOf(file2.lines[k].b) = {i}
                      /\ results[i].net_code1 = "N/A"
                      /\ results[i].count1 = 0
                      /\ results[i].net_code2 = file2.lines[k].a
                      /\ results[i].count2 > 0 => results[i].is_mismatch

\* The report of a run whose first path is missing and whose second file
\* holds a net with a node and a net without.
C5_Witness ==
    /\ pc = "done"
    /\ ~file1.exists /\ file2.exists
    /\ html_content # <<>>
    /\ \E i, j \in 1..Len(results) :
          /\ results[i].count2 = 1 /\ results[i].is_mismatch
          /\ results[i].net_code1 = "N/A"
          /\ results[j].count2 = 0 /\ ~results[j].is_mismatch
          /\ results[j].net_code1 = "N/A"

\* sub is a subsequence of seq: its entries, in order, at increasing places.
RECURSIVE IsSubsequence(_, _)
IsSubsequence(sub, seq) ==
    IF sub = <<>> THEN TRUE
    ELSE IF seq = <<>> THEN FALSE
    ELSE IF Head(sub) = Head(seq) THEN IsSubsequence(Tail(sub), Tail(seq))
    ELSE IsSubsequence(sub, Tail(seq))

Occurrences(node, nodes) == Cardinality({ i \in 1..Len(nodes) : nodes[i] = node })

\* unique is nodes_a without every entry whose string occurs in nodes_b.
IsContainmentDifference(unique, nodes_a, nodes_b) ==
    /\ IsSubsequence(unique, nodes_a)
    /\ Range(unique) \cap Range(nodes_b) = {}
    /\ \A node \in Range(nodes_a) \ Range(nodes_b) :
          Occurrences(node, unique) = Occurrences(node, nodes_a)

\* C9: unique_nodes1 is the order-preserving subsequence of the file1 nodes
\* whose string occurs nowhere in the file2 nodes, and symmetrically; every
\* copy of a node that the other side holds is removed.
C9_UniqueIsContainmentDifference ==
    /\ (pc = "loop" /\ results # <<>>) =>
          /\ IsContainmentDifference(unique_nodes1, Nodes1(LastRow.net_name),
                                     Nodes2(LastRow.net_name))
          /\ IsContainmentDifference(unique_nodes2, Nodes2(LastRow.net_name),
                                     Nodes1(LastRow.net_name))
    /\ \A i \in 1..Len(detailed_mismatches) :
          LET d == detailed_mismatches[i] IN
          /\ IsContainmentDifference(d.unique_nodes1, Nodes1(d.net_name),
                                     Nodes2(d.net_name))
          /\ IsContainmentDifference(d.unique_nodes2, Nodes2(d.net_name),
                                     Nodes1(d.net_name))
          /\ d.count1 = Len(d.unique_nodes1)
          /\ d.count2 = Len(d.unique_nodes2)

\* File1 holds C1-1, R1-2 and file2 holds C1-1, R1-2, C2-1 for the same net.
C9_Witness ==
    /\ pc = "loop"
    /\ results # <<>>
    /\ Nodes1(LastRow.net_name) = <<FormatNode("C1", "1"), FormatNode("R1", "2")>>
    /\ Nodes2(LastRow.net_name) =
          <<FormatNode("C1", "1"), FormatNode("R1", "2"), FormatNode("C2", "1")>>
    /\ unique_nodes1 = <<>>
    /\ unique_nodes2 = <<FormatNode("C2", "1")>>
    /\ LastRow.is_mismatch
    /\ detailed_mismatches[1].count1 = 0 /\ detailed_mismatches[1].count2 = 1

\* Both copies of a repeated node leave together.
C9_WitnessDuplicates ==
    /\ pc = "loop"
    /\ results # <<>>
    /\ Nodes1(LastRow.net_name) =
          <<FormatNode("C1", "1"), FormatNode("R1", "2"), FormatNode("C1", "1")>>
    /\ Nodes2(LastRow.net_name) = <<FormatNode("C1", "1")>>
    /\ unique_nodes1 = <<FormatNode("R1", "2")>>

\* C10: during and after the loop results holds one row per processed net
\* name, the two counters add up to the number of rows, mismatched_count
\* counts the flagged rows, detailed_mismatches holds one entry per flagged
\* net and none for the others; the sort permutes results.
C10_Bookkeeping ==
    /\ [](pc \in {"loop", "report", "done"} =>
            /\ { results[i].net_name : i \in 1..Len(results) } = all_nets \ todo
            /\ \A name \in all_nets \ todo : Cardinality(RowsOf(name)) = 1
            /\ matched_count + mismatched_count = Len(results)
            /\ mismatched_count =
                  Cardinality({ i \in 1..Len(results) : results[i].is_mismatch })
            /\ Len(detailed_mismatches) = mismatched_count
            /\ \A i \in 1..Len(results) :
                  Cardinality(DetailsOf(results[i].net_name)) =
                     IF results[i].is_mismatch THEN 1 ELSE 0)
    /\ [][pc' = "report" =>
            /\ Len(results') = Len(results)
            /\ Range(results') = Range(results)]_vars

\* Three nets processed and sorted, flagged and unflagged among them.
C10_Witness ==
    /\ pc = "report"
    /\ Len(results) = 3
    /\ matched_count = 1
    /\ mismatched_count = 2
    /\ Len(detailed_mismatches) = 2

-----------------------------------------------------------------------------
(* Properties of the reporter *)

\* C6: each placeholder is replaced once by its own fragment: the report is
\* the template with the summary rows where {{ rows }} stood, the detail rows
\* where {{ detailed_rows }} stood and the footer where {{ footer_info }}
\* stood, whatever the net names are.
C6_EachPlaceholderOnce ==
    pc = "done" =>
        html_content =
            <<Template[1]>> \o SummaryRows(results, 1)
            \o <<Template[3]>> \o DetailRows(detailed_mismatches, 1)
            \o <<Template[5]>> \o FooterInfo(matched_count, mismatched_count)
            \o <<Template[7]>>

-----------------------------------------------------------------------------
(* Properties of the parser *)

\* C7: inside the nets section a matching node line is appended, in its
\* canonical form, to the node list of the net declared last, and dropped
\* only when no net has been declared yet; outside the nets section net and
\* node lines change neither mapping.
C7_NodeJoinsCurrentNet ==
    [][(pc = "lines" /\ idx' = idx + 1) =>
          LET line == lines[idx + 1] IN
          /\ (in_nets_section /\ line.kind = "node") =>
                IF net_name = None
                THEN connections' = connections
                ELSE connections' =
                        [connections EXCEPT ![net_name[1]].nodes =
                            Append(@, <<"(node (ref \"", line.a, "\") (pin \"",
                                        line.b, "\"))">>)]
          /\ (~in_nets_section /\ line.kind \in {"net", "node"}) =>
                connections' = connections /\ net_codes' = net_codes]_vars

\* Whether the loop is inside the nets section when it reaches line k.
InSectionAt(k) ==
    LET markers == { i \in 1..(k - 1) : lines[i].kind \in {"nets", "components"} }
    IN  /\ markers # {}
        /\ lines[CHOOSE i \in markers : \A j \in markers : j <= i].kind = "nets"

\* Line k declares a net, and declares the net `name`.
IsDeclaration(k) == lines[k].kind = "net" /\ InSectionAt(k)
Declares(k, name) == IsDeclaration(k) /\ lines[k].b = name

LastDeclaration(name) ==
    CHOOSE k \in 1..Len(lines) :
        /\ Declares(k, name)
        /\ \A j \in (k + 1)..Len(lines) : ~Declares(j, name)

\* The node lines of the nets section from line j on that come before the
\* next net declaration, in canonical form.
RECURSIVE NodesFrom(_)
NodesFrom(j) ==
    IF j > Len(lines) \/ IsDeclaration(j) THEN <<>>
    ELSE IF lines[j].kind = "node" /\ InSectionAt(j)
         THEN <<FormatNode(lines[j].a, lines[j].b)>> \o NodesFrom(j + 1)
         ELSE NodesFrom(j + 1)

====
